---- MODULE Spec2Model ----
(***************************************************************************)
(* Model of package goh (src/goh.go): the file-serving types File, Dir,    *)
(* Filter (FilterFunc, AllowDirs) and NotFound, the response writer they   *)
(* write to and the filesystem they read; and the handlers that hold a     *)
(* response as a value, Reader, Bytes, String, Json, Xml, with Handler.    *)
(*                                                                         *)
(* Strings are sequences of one-character strings, so that the string and  *)
(* path functions the code calls are computed character by character.      *)
(* The platform is Unix: filepath.Separator is `/`.                        *)
(***************************************************************************)
EXTENDS Integers, Sequences, FiniteSets, TLC

VARIABLES fs, rew, last, chain

vars == <<fs, rew, last, chain>>

(***************************************************************************)
(* Bounds of the model.                                                    *)
(***************************************************************************)
\* longest request path / Dir.Path / filter input enumerated exhaustively
MaxLen == 3
\* most attempts of one fallback chain
MaxChain == 3
\* most directories of an enumerated AllowDirs
MaxDirs == 2

(***************************************************************************)
(* Strings.                                                                *)
(***************************************************************************)
Separator == "/"

\* the characters of the exhaustively enumerated strings
Alphabet == {"/", ".", "a", "b"}

RECURSIVE StringsOfLen(_)
StringsOfLen(n) ==
  IF n = 0 THEN {<<>>}
  ELSE {Append(s, c) : s \in StringsOfLen(n - 1), c \in Alphabet}

StringsUpTo(n) == UNION {StringsOfLen(k) : k \in 0..n}

\* s[i:] of Go, i counted from 0
DropFirst(s, i) == SubSeq(s, i + 1, Len(s))

\* strings.HasPrefix
HasPrefix(s, prefix) ==
  /\ Len(s) >= Len(prefix)
  /\ SubSeq(s, 1, Len(prefix)) = prefix

\* strings.HasSuffix
HasSuffix(s, suffix) ==
  /\ Len(s) >= Len(suffix)
  /\ SubSeq(s, Len(s) - Len(suffix) + 1, Len(s)) = suffix

\* strings.TrimPrefix
TrimPrefix(s, prefix) ==
  IF HasPrefix(s, prefix) THEN DropFirst(s, Len(prefix)) ELSE s

\* strings.Contains
Contains(s, substr) ==
  \E i \in 0..(Len(s) - Len(substr)) : SubSeq(s, i + 1, i + Len(substr)) = substr

\* strings.Split(s, "/"): the elements between separators, empty ones kept
RECURSIVE SplitFrom(_, _, _)
SplitFrom(s, i, cur) ==
  IF i > Len(s) THEN <<cur>>
  ELSE IF s[i] = Separator THEN <<cur>> \o SplitFrom(s, i + 1, <<>>)
  ELSE SplitFrom(s, i + 1, Append(cur, s[i]))

Split(s) == SplitFrom(s, 1, <<>>)

\* strings.Join(elems, "/")
RECURSIVE JoinElems(_)
JoinElems(elems) ==
  IF Len(elems) = 0 THEN <<>>
  ELSE IF Len(elems) = 1 THEN elems[1]
  ELSE elems[1] \o <<Separator>> \o JoinElems(Tail(elems))

DotDot == <<".", ".">>
Dot == <<".">>
Slash == <<"/">>

\* filepath.Clean, element by element: empty and `.` elements are dropped,
\* `..` removes the element before it, stays at the start of a relative path
\* and is dropped at the start of a rooted one
RECURSIVE CleanElems(_, _, _)
CleanElems(elems, out, rooted) ==
  IF Len(elems) = 0 THEN out
  ELSE LET e == Head(elems)
           rest == Tail(elems)
       IN IF e = <<>> \/ e = Dot THEN CleanElems(rest, out, rooted)
          ELSE IF e = DotDot
            THEN IF Len(out) > 0 /\ out[Len(out)] # DotDot
                   THEN CleanElems(rest, SubSeq(out, 1, Len(out) - 1), rooted)
                 ELSE IF rooted THEN CleanElems(rest, out, rooted)
                 ELSE CleanElems(rest, Append(out, e), rooted)
          ELSE CleanElems(rest, Append(out, e), rooted)

Clean(path) ==
  IF path = <<>> THEN Dot
  ELSE LET rooted == path[1] = Separator
           body == JoinElems(CleanElems(Split(path), <<>>, rooted))
       IN IF rooted THEN Slash \o body
          ELSE IF body = <<>> THEN Dot ELSE body

\* filepath.Join(a, b): empty leading elements are skipped, the rest is joined
\* with the separator and cleaned; all empty gives the empty string
Join(a, b) ==
  IF a # <<>> THEN Clean(a \o <<Separator>> \o b)
  ELSE IF b # <<>> THEN Clean(b)
  ELSE <<>>

\* filepath.ToSlash: every separator becomes `/`
ToSlash(path) ==
  [i \in 1..Len(path) |-> IF path[i] = Separator THEN "/" ELSE path[i]]

(***************************************************************************)
(* The filesystem.  A node is the sequence of names leading to it from the *)
(* working directory, which is also the root of the tree; fs maps each     *)
(* existing node to [dir, data].                                           *)
(***************************************************************************)
NoNode == <<<<>>>>

IsDir(node) == node = <<>> \/ (node \in DOMAIN fs /\ fs[node].dir)

Parent(node) == IF node = <<>> THEN <<>> ELSE SubSeq(node, 1, Len(node) - 1)

\* path resolution of the operating system: every element but the last must
\* be a directory, an empty or `.` element stays, `..` goes up
RECURSIVE Walk(_, _)
Walk(elems, at) ==
  IF Len(elems) = 0 THEN at
  ELSE IF ~IsDir(at) THEN NoNode
  ELSE LET e == Head(elems)
           rest == Tail(elems)
       IN IF e = <<>> \/ e = Dot THEN Walk(rest, at)
          ELSE IF e = DotDot THEN Walk(rest, Parent(at))
          ELSE IF Append(at, e) \in DOMAIN fs THEN Walk(rest, Append(at, e))
          ELSE NoNode

\* os.Stat: the node at path, NoNode for the nil FileInfo of an error
Stat(path) == IF path = <<>> THEN NoNode ELSE Walk(Split(path), <<>>)

\* fileExists taking whatever os.Stat finds, a directory too
fileExists_anyEntry(path) ==
  IF path = <<>> THEN FALSE
  ELSE Stat(path) # NoNode

fileExists(path) ==
  IF path = <<>> THEN FALSE
  ELSE LET stat == Stat(path)
       IN stat # NoNode /\ ~IsDir(stat)

(***************************************************************************)
(* The response writer: the header map handed out by Header(), the status  *)
(* and header snapshot fixed by the first WriteHeader, and the body.       *)
(***************************************************************************)
StatusOK == 200
StatusNotFound == 404

\* an http.Header is a set of [key, vals] entries, at most one for a key
NoHeader == {}

HeaderKeys(head) == {e.key : e \in head}

HeaderHas(head, key) == key \in HeaderKeys(head)

\* http.Header.Set
HeaderSet(head, key, val) ==
  {e \in head : e.key # key} \cup {[key |-> key, vals |-> <<val>>]}

\* http.Header.Del
HeaderDel(head, key) == {e \in head : e.key # key}

\* http.ResponseWriter.WriteHeader: the first call fixes the status and the
\* headers that are sent, later calls are ignored
WriteHeader(w, code) ==
  IF w.wroteHeader THEN w
  ELSE [w EXCEPT !.wroteHeader = TRUE, !.code = code, !.snap = w.header]

\* http.ResponseWriter.Write: implies WriteHeader(200)
Write(w, bytes) ==
  LET h == WriteHeader(w, StatusOK)
  IN [h EXCEPT !.body = h.body \o bytes]

\* httptest.NewRecorder: nothing written yet
NewRecorder ==
  [header |-> NoHeader, wroteHeader |-> FALSE, code |-> 0, snap |-> NoHeader,
   body |-> <<>>]

\* the status a client sees
Code(w) == IF w.wroteHeader THEN w.code ELSE StatusOK

MutateHeader(tar, src) ==
  {e \in tar : e.key \notin HeaderKeys(src)} \cup src

HeadType == "Content-Type"

\* head.Get(key) is the first value of the key, the empty string without one
headSetOpt(head, key, val) ==
  IF \E e \in head : e.key = key /\ Len(e.vals) > 0 /\ e.vals[1] # ""
    THEN head
    ELSE HeaderSet(head, key, val)

\* a writeHead value
writeHead(status, head, conType, conLen, hasConLen) ==
  [status |-> status, head |-> head, conType |-> conType, conLen |-> conLen,
   hasConLen |-> hasConLen]

\* writeHead.run on a non-nil writer
writeHead_run(self, w) ==
  LET merged == MutateHeader(w.header, self.head)
      typed == IF self.conType # "" THEN headSetOpt(merged, HeadType, self.conType)
               ELSE merged
      sized == IF self.hasConLen
                 THEN headSetOpt(typed, "Content-Length", ToString(self.conLen))
               ELSE typed
      tar == [w EXCEPT !.header = sized]
  IN IF self.status # 0 /\ self.status # StatusOK
       THEN WriteHeader(tar, self.status)
       ELSE tar

\* NotFound.ServeHTTP
NotFound_ServeHTTP(w, req) == WriteHeader(w, StatusNotFound)

\* the containsDotDot of net/http: some element of the URL path is `..`
containsDotDot(path) == \E i \in 1..Len(Split(path)) : Split(path)[i] = DotDot

IndexPage == <<"/", "i", "n", "d", "e", "x", ".", "h", "t", "m", "l">>

\* http.Error: a plain-text error response
Error(w, code) ==
  LET head == HeaderSet(HeaderSet(HeaderDel(w.header, "Content-Length"),
                 "Content-Type", "text/plain; charset=utf-8"),
                 "X-Content-Type-Options", "nosniff")
  IN Write(WriteHeader([w EXCEPT !.header = head], code), <<"error">>)

\* http.ServeFile for a GET request without conditional or range headers:
\* a URL path with a `..` element is refused, a URL path ending in
\* /index.html is redirected, a file that cannot be opened is an error, a
\* directory is redirected or listed, and a regular file is sent whole
ServeFile(w, req, name) ==
  IF containsDotDot(req.Path) THEN Error(w, 400)
  ELSE IF HasSuffix(req.Path, IndexPage)
    THEN WriteHeader([w EXCEPT !.header = HeaderSet(w.header, "Location", "./")], 301)
  ELSE IF Stat(name) = NoNode THEN Error(w, StatusNotFound)
  ELSE IF IsDir(Stat(name))
    THEN IF req.Path = <<>> \/ req.Path[Len(req.Path)] # "/"
           THEN WriteHeader([w EXCEPT !.header = HeaderSet(w.header, "Location", "dir/")], 301)
           ELSE Write([w EXCEPT !.header =
                          HeaderSet(w.header, "Content-Type", "text/html; charset=utf-8")],
                      <<"listing">>)
  ELSE LET typed == IF HeaderHas(w.header, "Content-Type") THEN w.header
                    ELSE HeaderSet(w.header, "Content-Type", "detected")
           head == HeaderSet(HeaderSet(HeaderSet(typed,
                      "Last-Modified", "modtime"), "Accept-Ranges", "bytes"),
                      "Content-Length", "size")
       IN Write(WriteHeader([w EXCEPT !.header = head], StatusOK), fs[Stat(name)].data)

(***************************************************************************)
(* File: [Status, Header, ErrFunc, Path].                                  *)
(***************************************************************************)
File_Exists(self) == fileExists(self.Path)

\* File.ServeHTTP writing the head before it looks for the file
File_ServeHTTP_headFirst(self, w, req) ==
  LET h == writeHead_run(writeHead(self.Status, self.Header, "", 0, FALSE), w)
  IN IF File_Exists(self) THEN ServeFile(h, req, self.Path)
     ELSE NotFound_ServeHTTP(h, req)

File_ServeHTTP(self, w, req) ==
  IF File_Exists(self)
    THEN ServeFile(writeHead_run(writeHead(self.Status, self.Header, "", 0, FALSE), w),
                   req, self.Path)
    ELSE NotFound_ServeHTTP(w, req)

\* File.ServedHTTP serving first and reporting afterwards
File_ServedHTTP_eager(self, w, req) ==
  [rew |-> File_ServeHTTP(self, w, req), ret |-> File_Exists(self)]

\* the writer after the call and the returned bool
File_ServedHTTP(self, w, req) ==
  IF File_Exists(self)
    THEN [rew |-> File_ServeHTTP(self, w, req), ret |-> TRUE]
    ELSE [rew |-> w, ret |-> FALSE]

\* a returned http.Handler: nil, a File, or NotFound{}
ZeroFile == [Status |-> 0, Header |-> NoHeader, ErrFunc |-> "nil", Path |-> <<>>]
NilHandler == [type |-> "nil", file |-> ZeroFile]
NotFoundHandler == [type |-> "NotFound", file |-> ZeroFile]
FileHandler(file) == [type |-> "File", file |-> file]

File_Han(self, req) == FileHandler(self)

\* File.HanOpt returning the descriptor without looking for the file
File_HanOpt_always(self, req) == FileHandler(self)

File_HanOpt(self, req) ==
  IF File_Exists(self) THEN FileHandler(self) ELSE NilHandler

(***************************************************************************)
(* Filter: nil, a FilterFunc or an AllowDirs.                              *)
(***************************************************************************)
NilFilter == [kind |-> "nil", fun |-> "nil", dirs |-> <<>>]
FilterFunc(fun) == [kind |-> "FilterFunc", fun |-> fun, dirs |-> <<>>]
AllowDirs(dirs) == [kind |-> "AllowDirs", fun |-> "nil", dirs |-> dirs]

\* the functions a FilterFunc wraps in this model
CallFun(fun, val) ==
  CASE fun = "true" -> TRUE
    [] fun = "false" -> FALSE

\* FilterFunc.Allow allowing everything when the function is nil
FilterFunc_Allow_nilAllows(self, val) ==
  IF self.fun # "nil" THEN CallFun(self.fun, val) ELSE TRUE

FilterFunc_Allow(self, val) ==
  IF self.fun # "nil" THEN CallFun(self.fun, val) ELSE FALSE

\* isSubpath as a plain string prefix
isSubpath_prefix(sup, sub) == HasPrefix(sub, sup)

isSubpath(sup, sub) ==
  /\ HasPrefix(sub, sup)
  /\ HasPrefix(DropFirst(sub, Len(sup)), Slash)

AllowDirs_Allow(self, val) ==
  \E i \in 1..Len(self.dirs) : isSubpath(self.dirs[i], val)

Filter_Allow(self, val) ==
  IF self.kind = "FilterFunc" THEN FilterFunc_Allow(self, val)
  ELSE AllowDirs_Allow(self, val)

(***************************************************************************)
(* Dir: [Status, Header, ErrFunc, Path, Filter].                           *)
(***************************************************************************)
Dir_File(self, path) ==
  [Status |-> self.Status, Header |-> self.Header, ErrFunc |-> self.ErrFunc,
   Path |-> path]

Dir_Allow(self, path) ==
  IF self.Filter.kind # "nil" THEN Filter_Allow(self.Filter, ToSlash(path))
  ELSE TRUE

\* Dir.Resolve without the `..` check
Dir_Resolve_noDotDot(self, req) ==
  LET reqPath == TrimPrefix(req.Path, Slash)
  IN IF HasSuffix(reqPath, Slash) THEN Dir_File(self, <<>>)
     ELSE LET filePath == Join(self.Path, reqPath)
          IN IF ~Dir_Allow(self, filePath) THEN Dir_File(self, <<>>)
             ELSE Dir_File(self, filePath)

\* Dir.Resolve giving the filter the request path instead of the joined path
Dir_Resolve_filterReqPath(self, req) ==
  LET reqPath == TrimPrefix(req.Path, Slash)
  IN IF Contains(reqPath, DotDot) \/ HasSuffix(reqPath, Slash)
       THEN Dir_File(self, <<>>)
     ELSE IF ~Dir_Allow(self, reqPath) THEN Dir_File(self, <<>>)
     ELSE Dir_File(self, Join(self.Path, reqPath))

\* Dir.Resolve keeping the joined path of a file the filter denies
Dir_Resolve_keepDenied(self, req) ==
  LET reqPath == TrimPrefix(req.Path, Slash)
  IN IF Contains(reqPath, DotDot) \/ HasSuffix(reqPath, Slash)
       THEN Dir_File(self, <<>>)
     ELSE Dir_File(self, Join(self.Path, reqPath))

\* Dir.Resolve looking for the file and resolving to the empty path when the
\* file is not there
Dir_Resolve_existing(self, req) ==
  LET reqPath == TrimPrefix(req.Path, Slash)
  IN IF Contains(reqPath, DotDot) \/ HasSuffix(reqPath, Slash)
       THEN Dir_File(self, <<>>)
     ELSE LET filePath == Join(self.Path, reqPath)
          IN IF ~Dir_Allow(self, filePath) \/ ~fileExists(filePath)
               THEN Dir_File(self, <<>>)
             ELSE Dir_File(self, filePath)

Dir_Resolve(self, req) ==
  LET reqPath == TrimPrefix(req.Path, Slash)
  IN IF Contains(reqPath, DotDot) \/ HasSuffix(reqPath, Slash)
       THEN Dir_File(self, <<>>)
     ELSE LET filePath == Join(self.Path, reqPath)
          IN IF ~Dir_Allow(self, filePath) THEN Dir_File(self, <<>>)
             ELSE Dir_File(self, filePath)

\* the call of Filter.Allow that Dir.Resolve makes through Dir.Allow: whether
\* it is made, and its argument
FilterCall(self, req) ==
  LET reqPath == TrimPrefix(req.Path, Slash)
  IN IF Contains(reqPath, DotDot) \/ HasSuffix(reqPath, Slash) \/ self.Filter.kind = "nil"
       THEN [called |-> FALSE, val |-> <<>>]
     ELSE [called |-> TRUE, val |-> ToSlash(Join(self.Path, reqPath))]

Dir_ServeHTTP(self, w, req) == File_ServeHTTP(Dir_Resolve(self, req), w, req)

Dir_ServedHTTP(self, w, req) == File_ServedHTTP(Dir_Resolve(self, req), w, req)

Dir_HanOpt(self, req) == File_HanOpt(Dir_Resolve(self, req), req)

\* Dir.Han without the nil check
Dir_Han_noFallback(self, req) == Dir_HanOpt(self, req)

Dir_Han(self, req) ==
  LET res == Dir_HanOpt(self, req)
  IN IF res # NilHandler THEN res ELSE NotFoundHandler

(***************************************************************************)
(* Inputs of the served tree: a working directory holding                  *)
(*   readme.txt, public/readme.txt, private/readme.txt,                    *)
(*   static/public/readme.txt, static/private/readme.txt.                  *)
(***************************************************************************)
S_static == <<"s", "t", "a", "t", "i", "c">>
S_public == <<"p", "u", "b", "l", "i", "c">>
S_private == <<"p", "r", "i", "v", "a", "t", "e">>
S_readme == <<"r", "e", "a", "d", "m", "e", ".", "t", "x", "t">>
S_missing == <<"m", "i", "s", "s", "i", "n", "g">>
S_secret == <<"s", "e", "c", "r", "e", "t">>

P(a, b) == a \o Slash \o b

DirEntry == [dir |-> TRUE, data |-> <<>>]
FileEntry(data) == [dir |-> FALSE, data |-> data]

TreeDirs == {<<S_static>>, <<S_static, S_public>>, <<S_static, S_private>>,
             <<S_public>>, <<S_private>>}

\* the files of the tree that stay
TreeFixedFiles == {<<S_readme>>, <<S_public, S_readme>>, <<S_private, S_readme>>}

\* the files of the tree that are removed and created while the server runs
TreeFiles == {<<S_static, S_public, S_readme>>, <<S_static, S_private, S_readme>>}

\* every file has its own content
DataOf(node) ==
  CASE node = <<S_readme>> -> <<"r", "0">>
    [] node = <<S_public, S_readme>> -> <<"p", "1">>
    [] node = <<S_private, S_readme>> -> <<"s", "2">>
    [] node = <<S_static, S_public, S_readme>> -> <<"P", "3">>
    [] node = <<S_static, S_private, S_readme>> -> <<"S", "4">>
    [] node = << <<"b">> >> -> <<"b", "5">>
    [] node = << <<"a">>, <<"a">> >> -> <<"a", "6">>
    [] node = << <<"a">>, <<"b">>, <<"a">> >> -> <<"c", "7">>

TreeFs(files) ==
  [n \in TreeDirs \cup files |-> IF n \in TreeDirs THEN DirEntry ELSE FileEntry(DataOf(n))]

Head0 == [Status |-> 0, Header |-> NoHeader, ErrFunc |-> "nil"]
Head200 == [Status |-> 200, Header |-> {[key |-> "Content-Type", vals |-> <<"text/plain">>]},
            ErrFunc |-> "nil"]
Head202 == [Status |-> 202, Header |-> {[key |-> "X-Test", vals |-> <<"new">>]},
            ErrFunc |-> "custom"]
Heads == {Head0, Head200, Head202}

MkFile(head, path) ==
  [Status |-> head.Status, Header |-> head.Header, ErrFunc |-> head.ErrFunc, Path |-> path]

MkDir(head, path, filter) ==
  [Status |-> head.Status, Header |-> head.Header, ErrFunc |-> head.ErrFunc,
   Path |-> path, Filter |-> filter]

TreeRoots == {S_static, Dot, <<>>, S_readme}

TreeFilters ==
  {NilFilter, FilterFunc("nil"), FilterFunc("true"), FilterFunc("false"),
   AllowDirs(<<>>), AllowDirs(<<S_public>>), AllowDirs(<<P(S_static, S_public)>>)}

TreeDirHandlers == {MkDir(h, r, f) : h \in Heads, r \in TreeRoots, f \in TreeFilters}

TreeFileHandlers ==
  {MkFile(h, p) : h \in Heads,
                  p \in {<<>>, Dot, S_static, S_readme, S_readme \o Slash, S_missing,
                         P(P(S_static, S_public), S_readme)}}

TreeReqs ==
  {[Path |-> p] :
     p \in {<<>>, Slash, Slash \o Dot,
            Slash \o S_readme,
            Slash \o S_public,
            Slash \o S_public \o Slash,
            Slash \o P(S_public, S_readme),
            Slash \o P(S_private, S_readme),
            Slash \o P(S_public, S_missing),
            Slash \o P(DotDot, S_secret),
            Slash \o P(P(S_public, DotDot), P(S_private, S_readme)),
            Slash \o P(S_public, S_readme) \o Slash}}

\* the requests given to a File, which looks at no request itself
FileReqs ==
  {[Path |-> p] :
     p \in {Slash, Slash \o P(S_public, S_readme), Slash \o P(DotDot, S_secret),
            Slash \o S_public \o IndexPage}}

\* the states a response writer is in when a handler gets it: untouched, with
\* headers set by the caller, and already written to
Writers ==
  {NewRecorder,
   [NewRecorder EXCEPT !.header = {[key |-> "X-Test", vals |-> <<"old">>],
                                   [key |-> "X-Pre", vals |-> <<"pre">>]}],
   [header |-> {[key |-> "X-Pre", vals |-> <<"pre">>]}, wroteHeader |-> TRUE,
    code |-> 201, snap |-> {[key |-> "X-Pre", vals |-> <<"pre">>]}, body |-> <<"x">>]}

(***************************************************************************)
(* The calls.  last holds the call in progress: the method, its receiver   *)
(* and request, the writer as it was handed over, and what the method      *)
(* returned; rew is the writer after the call.  For Dir.Resolve, ret and   *)
(* arg hold whether the filter was called and the path it was given.       *)
(***************************************************************************)
NoReq == [Path |-> <<>>]

Idle ==
  [op |-> "idle", self |-> ZeroFile, req |-> NoReq, pre |-> NewRecorder,
   file |-> ZeroFile, ret |-> FALSE, han |-> NilHandler, arg |-> <<>>]

Call(op, self, req, pre, file, ret, han) ==
  [op |-> op, self |-> self, req |-> req, pre |-> pre, file |-> file, ret |-> ret,
   han |-> han, arg |-> <<>>]

FileServeHTTP(F, R, W) ==
  /\ last.op = "idle"
  /\ \E f \in F, r \in R, w \in W :
       /\ rew' = File_ServeHTTP(f, w, r)
       /\ last' = Call("File.ServeHTTP", f, r, w, f, FALSE, NilHandler)
       /\ UNCHANGED <<fs, chain>>

FileServedHTTP(F, R, W) ==
  /\ last.op = "idle"
  /\ \E f \in F, r \in R, w \in W :
       /\ rew' = File_ServedHTTP(f, w, r).rew
       /\ last' = Call("File.ServedHTTP", f, r, w, f, File_ServedHTTP(f, w, r).ret, NilHandler)
       /\ UNCHANGED <<fs, chain>>

FileHan(F, R, W) ==
  /\ last.op = "idle"
  /\ \E f \in F, r \in R, w \in W :
       /\ rew' = w
       /\ last' = Call("File.Han", f, r, w, f, FALSE, File_Han(f, r))
       /\ UNCHANGED <<fs, chain>>

FileHanOpt(F, R, W) ==
  /\ last.op = "idle"
  /\ \E f \in F, r \in R, w \in W :
       /\ rew' = w
       /\ last' = Call("File.HanOpt", f, r, w, f, FALSE, File_HanOpt(f, r))
       /\ UNCHANGED <<fs, chain>>

DirResolve(D, R, W) ==
  /\ last.op = "idle"
  /\ \E d \in D, r \in R, w \in W :
       /\ rew' = w
       /\ last' = [Call("Dir.Resolve", d, r, w, Dir_Resolve(d, r), FALSE, NilHandler)
                    EXCEPT !.ret = FilterCall(d, r).called, !.arg = FilterCall(d, r).val]
       /\ UNCHANGED <<fs, chain>>

DirServeHTTP(D, R, W) ==
  /\ last.op = "idle"
  /\ \E d \in D, r \in R, w \in W :
       /\ rew' = Dir_ServeHTTP(d, w, r)
       /\ last' = Call("Dir.ServeHTTP", d, r, w, Dir_Resolve(d, r), FALSE, NilHandler)
       /\ UNCHANGED <<fs, chain>>

DirServedHTTP(D, R, W) ==
  /\ last.op = "idle"
  /\ \E d \in D, r \in R, w \in W :
       /\ rew' = Dir_ServedHTTP(d, w, r).rew
       /\ last' = Call("Dir.ServedHTTP", d, r, w, Dir_Resolve(d, r),
                       Dir_ServedHTTP(d, w, r).ret, NilHandler)
       /\ UNCHANGED <<fs, chain>>

DirHan(D, R, W) ==
  /\ last.op = "idle"
  /\ \E d \in D, r \in R, w \in W :
       /\ rew' = w
       /\ last' = Call("Dir.Han", d, r, w, Dir_Resolve(d, r), FALSE, Dir_Han(d, r))
       /\ UNCHANGED <<fs, chain>>

DirHanOpt(D, R, W) ==
  /\ last.op = "idle"
  /\ \E d \in D, r \in R, w \in W :
       /\ rew' = w
       /\ last' = Call("Dir.HanOpt", d, r, w, Dir_Resolve(d, r), FALSE, Dir_HanOpt(d, r))
       /\ UNCHANGED <<fs, chain>>

\* the call has returned; the server takes the next one
Return ==
  /\ last.op # "idle"
  /\ last' = Idle
  /\ rew' = NewRecorder
  /\ UNCHANGED <<fs, chain>>

\* between calls, another process removes or creates a file
RemoveFile(N) ==
  /\ last.op = "idle"
  /\ \E n \in N :
       /\ n \in DOMAIN fs
       /\ fs' = [m \in DOMAIN fs \ {n} |-> fs[m]]
       /\ UNCHANGED <<rew, last, chain>>

CreateFile(N) ==
  /\ last.op = "idle"
  /\ \E n \in N :
       /\ n \notin DOMAIN fs
       /\ fs' = [m \in DOMAIN fs \cup {n} |-> IF m = n THEN FileEntry(DataOf(n)) ELSE fs[m]]
       /\ UNCHANGED <<rew, last, chain>>

NoChain == [active |-> FALSE, init |-> NewRecorder, req |-> NoReq, tries |-> 0,
            served |-> FALSE, writers |-> 0, cleanStarts |-> TRUE]

Init ==
  /\ fs = TreeFs(TreeFixedFiles \cup TreeFiles)
  /\ rew = NewRecorder
  /\ last = Idle
  /\ chain = NoChain

Next ==
  \/ FileServeHTTP(TreeFileHandlers, FileReqs, Writers)
  \/ FileServedHTTP(TreeFileHandlers, FileReqs, Writers)
  \/ FileHan(TreeFileHandlers, FileReqs, {NewRecorder})
  \/ FileHanOpt(TreeFileHandlers, FileReqs, {NewRecorder})
  \/ DirResolve(TreeDirHandlers, TreeReqs, {NewRecorder})
  \/ DirServeHTTP(TreeDirHandlers, TreeReqs, Writers)
  \/ DirServedHTTP(TreeDirHandlers, TreeReqs, Writers)
  \/ DirHan(TreeDirHandlers, TreeReqs, {NewRecorder})
  \/ DirHanOpt(TreeDirHandlers, TreeReqs, {NewRecorder})
  \/ Return
  \/ RemoveFile(TreeFiles)
  \/ CreateFile(TreeFiles)

Spec == Init /\ [][Next]_vars

(***************************************************************************)
(* Dir over every short request path.  The working directory holds the     *)
(* file b and the directory a with the file a/a and the directory a/b,     *)
(* which holds the file a/b/a.                                             *)
(***************************************************************************)
AlphaDirs == {<<<<"a">>>>, <<<<"a">>, <<"b">>>>}
AlphaFixedFiles == {<<<<"a">>, <<"b">>, <<"a">>>>}
AlphaFiles == {<<<<"b">>>>, <<<<"a">>, <<"a">>>>}

AlphaFs(files) ==
  [n \in AlphaDirs \cup files |-> IF n \in AlphaDirs THEN DirEntry ELSE FileEntry(DataOf(n))]

AlphaRoots ==
  {<<>>, Dot, <<"a">>, <<"a", "/">>, <<".", "/", "a">>, <<"/", "a">>, <<"b">>,
   <<"a", "/", "b">>}

AlphaFilters ==
  {NilFilter, FilterFunc("false"), AllowDirs(<< <<"a">> >>),
   AllowDirs(<< <<"b">>, <<"a", "/", "b">> >>)}

AlphaDirHandlers == {MkDir(Head202, r, f) : r \in AlphaRoots, f \in AlphaFilters}

\* every string up to MaxLen, and some longer paths with a `..` element
AlphaReqs ==
  {[Path |-> p] :
     p \in StringsUpTo(MaxLen) \cup
           {<<"/", ".", ".", "/", "b">>, <<"/", "a", "/", ".", ".", "/", "b">>,
            <<"/", "a", "/", ".", ".">>, <<"/", ".", ".", "/">>}}

InitResolve ==
  /\ fs = AlphaFs(AlphaFixedFiles \cup AlphaFiles)
  /\ rew = NewRecorder
  /\ last = Idle
  /\ chain = NoChain

NextResolve ==
  \/ DirResolve(AlphaDirHandlers, AlphaReqs, {NewRecorder})
  \/ DirServeHTTP(AlphaDirHandlers, AlphaReqs, {NewRecorder})
  \/ DirServedHTTP(AlphaDirHandlers, AlphaReqs, {NewRecorder})
  \/ DirHan(AlphaDirHandlers, AlphaReqs, {NewRecorder})
  \/ DirHanOpt(AlphaDirHandlers, AlphaReqs, {NewRecorder})
  \/ Return
  \/ RemoveFile(AlphaFiles)
  \/ CreateFile(AlphaFiles)

SpecResolve == InitResolve /\ [][NextResolve]_vars

(***************************************************************************)
(* AllowDirs.Allow over every short list of directories and every short    *)
(* path.                                                                   *)
(***************************************************************************)
DirNames == {<<>>, <<"a">>, <<"a", "/">>, <<"a", "b">>, <<"/", "a">>, <<"b">>, Dot}

RECURSIVE ListsOfLen(_)
ListsOfLen(n) ==
  IF n = 0 THEN {<<>>}
  ELSE {Append(l, d) : l \in ListsOfLen(n - 1), d \in DirNames}

AllowDirsUpTo(n) == UNION {ListsOfLen(k) : k \in 0..n}

AllowDirsAllow(DS, V) ==
  /\ last.op = "idle"
  /\ \E dirs \in DS, val \in V :
       /\ last' = [Idle EXCEPT !.op = "AllowDirs.Allow", !.self = AllowDirs(dirs),
                               !.arg = val,
                               !.ret = AllowDirs_Allow(AllowDirs(dirs), val)]
       /\ UNCHANGED <<fs, rew, chain>>

InitAllow ==
  /\ fs = AlphaFs(AlphaFixedFiles \cup AlphaFiles)
  /\ rew = NewRecorder
  /\ last = Idle
  /\ chain = NoChain

\* Dirs with every kind of filter
AllowDirHandlers ==
  {MkDir(Head0, r, f) :
     r \in {<<>>, Dot, <<"a">>},
     f \in {NilFilter, FilterFunc("nil"), FilterFunc("true"), FilterFunc("false"),
            AllowDirs(<<>>), AllowDirs(<< <<"a">> >>)}}

DirAllow(D, V) ==
  /\ last.op = "idle"
  /\ \E d \in D, val \in V :
       /\ last' = [Idle EXCEPT !.op = "Dir.Allow", !.self = d, !.arg = val,
                               !.ret = Dir_Allow(d, val)]
       /\ UNCHANGED <<fs, rew, chain>>

NextAllow ==
  \/ AllowDirsAllow(AllowDirsUpTo(MaxDirs), StringsUpTo(MaxLen))
  \/ DirAllow(AllowDirHandlers, StringsUpTo(MaxLen))
  \/ DirServeHTTP(AllowDirHandlers, AlphaReqs, {NewRecorder})
  \/ DirServedHTTP(AllowDirHandlers, AlphaReqs, {NewRecorder})
  \/ DirHanOpt(AllowDirHandlers, AlphaReqs, {NewRecorder})
  \/ Return

SpecAllow == InitAllow /\ [][NextAllow]_vars

(***************************************************************************)
(* A fallback chain: one request and one response writer are offered to    *)
(* File and Dir responders through ServedHTTP, the next one only after the *)
(* previous one returned false.  chain counts the attempts and the         *)
(* attempts that changed the writer.                                       *)
(***************************************************************************)
ChainStart(R, W) ==
  /\ ~chain.active
  /\ \E r \in R, w \in W :
       /\ chain' = [active |-> TRUE, init |-> w, req |-> r, tries |-> 0,
                    served |-> FALSE, writers |-> 0, cleanStarts |-> TRUE]
       /\ rew' = w
       /\ UNCHANGED <<fs, last>>

Attempt(res) ==
  /\ rew' = res.rew
  /\ chain' = [chain EXCEPT !.tries = @ + 1,
                            !.served = res.ret,
                            !.writers = @ + (IF res.rew # rew THEN 1 ELSE 0),
                            !.cleanStarts = @ /\ rew = chain.init]
  /\ UNCHANGED <<fs, last>>

ChainTryFile(F) ==
  /\ chain.active /\ ~chain.served /\ chain.tries < MaxChain
  /\ \E f \in F : Attempt(File_ServedHTTP(f, rew, chain.req))

ChainTryDir(D) ==
  /\ chain.active /\ ~chain.served /\ chain.tries < MaxChain
  /\ \E d \in D : Attempt(Dir_ServedHTTP(d, rew, chain.req))

\* the request is over: served, or given up to whatever comes after the chain
ChainEnd ==
  /\ chain.active
  /\ chain' = NoChain
  /\ rew' = NewRecorder
  /\ UNCHANGED <<fs, last>>

NextChain ==
  \/ ChainStart(TreeReqs, Writers)
  \/ ChainTryFile(TreeFileHandlers)
  \/ ChainTryDir(TreeDirHandlers)
  \/ ChainEnd
  \/ RemoveFile(TreeFiles)
  \/ CreateFile(TreeFiles)

SpecChain == Init /\ [][NextChain]_vars

(***************************************************************************)
(* Dir.Resolve twice.  After a first Dir.Resolve the same Dir serves the   *)
(* same request any number of times, and files come and go, before the     *)
(* same request is resolved again; last.file holds the first result and    *)
(* last.han the second.                                                    *)
(***************************************************************************)
\* another process removes or creates a file, whatever call is in progress
Unlink(N) ==
  \E n \in N :
    /\ n \in DOMAIN fs
    /\ fs' = [m \in DOMAIN fs \ {n} |-> fs[m]]
    /\ UNCHANGED <<rew, last, chain>>

Creat(N) ==
  \E n \in N :
    /\ n \notin DOMAIN fs
    /\ fs' = [m \in DOMAIN fs \cup {n} |-> IF m = n THEN FileEntry(DataOf(n)) ELSE fs[m]]
    /\ UNCHANGED <<rew, last, chain>>

DirServeBetween(W) ==
  /\ last.op = "Dir.Resolve"
  /\ \E w \in W :
       /\ rew' = Dir_ServeHTTP(last.self, w, last.req)
       /\ UNCHANGED <<fs, last, chain>>

DirResolveAgain ==
  /\ last.op = "Dir.Resolve"
  /\ last' = [last EXCEPT !.op = "Dir.Resolve again",
                          !.han = FileHandler(Dir_Resolve(last.self, last.req))]
  /\ UNCHANGED <<fs, rew, chain>>

NextPure ==
  \/ DirResolve(TreeDirHandlers, TreeReqs, {NewRecorder})
  \/ DirServeBetween(Writers)
  \/ DirResolveAgain
  \/ Unlink(TreeFiles)
  \/ Creat(TreeFiles)
  \/ Return

SpecPure == Init /\ [][NextPure]_vars

(***************************************************************************)
(* File over every short path, in the working directory of the Dir above.  *)
(***************************************************************************)
AlphaFileHandlers == {MkFile(h, p) : h \in {Head0, Head202}, p \in StringsUpTo(MaxLen)}

FileExists(F) ==
  /\ last.op = "idle"
  /\ \E f \in F :
       /\ last' = Call("File.Exists", f, NoReq, rew, f, File_Exists(f), NilHandler)
       /\ UNCHANGED <<fs, rew, chain>>

NextFile ==
  \/ FileExists(AlphaFileHandlers)
  \/ FileHan(AlphaFileHandlers, FileReqs, {NewRecorder})
  \/ FileHanOpt(AlphaFileHandlers, FileReqs, {NewRecorder})
  \/ Return
  \/ RemoveFile(AlphaFiles)
  \/ CreateFile(AlphaFiles)

SpecFile == InitResolve /\ [][NextFile]_vars

(***************************************************************************)
(* The handlers that hold a response as a value: Reader, Bytes, String,    *)
(* Json and Xml, each [Status, Header, ErrFunc, Body], and Handler, which  *)
(* runs a function that returns one of them or panics.                     *)
(***************************************************************************)
StatusInternalServerError == 500
TypeJson == "application/json"
TypeXml == "application/xml"

\* Write of a response writer whose connection may be gone: the header goes
\* out with the first Write, the bytes only when the connection takes them
SinkWrite(w, bytes, sinkOk) ==
  IF sinkOk THEN Write(w, bytes) ELSE WriteHeader(w, StatusOK)

\* WriteErr for a non-nil error, whose text is `err`
WriteErr(w, wrote, sinkOk) ==
  IF ~wrote
    THEN SinkWrite(WriteHeader(w, StatusInternalServerError), <<"e", "r", "r">>, sinkOk)
    ELSE w

\* errFunc(fun)(rew, req, err, wrote): HandleErr, which is WriteErr, for a nil
\* ErrFunc; the ErrFunc of user code writes to the server log
errFunc(fun, w, wrote, sinkOk) ==
  IF fun # "nil" THEN w ELSE WriteErr(w, wrote, sinkOk)

\* what a ServeHTTP did: the writer after it, whether it called the error
\* function, with which flag, and the writer the error function was given
Served(w) == [rew |-> w, errCalled |-> FALSE, wrote |-> FALSE, atErr |-> w]

Failed(self, w, wrote, sinkOk) ==
  [rew |-> errFunc(self.ErrFunc, w, wrote, sinkOk), errCalled |-> TRUE,
   wrote |-> wrote, atErr |-> w]

\* a Body: "nil" for none, "data" for bytes, a string, or a reader or value
\* that gives them, "failing" for an io.Reader that gives its bytes and then
\* fails, "chan" for a value no encoder takes
Body(kind, data) == [kind |-> kind, data |-> data]

\* io.Copy reads what the reader has and writes it, then reads again
Reader_ServeHTTP(self, w, sinkOk) ==
  LET h == writeHead_run(writeHead(self.Status, self.Header, "", 0, FALSE), w)
      data == self.Body.data
      copied == IF data = <<>> THEN h ELSE SinkWrite(h, data, sinkOk)
      err == (data # <<>> /\ ~sinkOk) \/ self.Body.kind = "failing"
  IN IF self.Body.kind = "nil" THEN Served(h)
     ELSE IF err THEN Failed(self, copied, TRUE, sinkOk)
     ELSE Served(copied)

Bytes_ServeHTTP(self, w, sinkOk) ==
  LET body == self.Body.data
      h == writeHead_run(writeHead(self.Status, self.Header, "", Len(body), TRUE), w)
      written == SinkWrite(h, body, sinkOk)
  IN IF ~sinkOk THEN Failed(self, written, TRUE, sinkOk) ELSE Served(written)

String_ServeHTTP(self, w, sinkOk) ==
  LET body == self.Body.data
      h == writeHead_run(writeHead(self.Status, self.Header, "", Len(body), TRUE), w)
      written == SinkWrite(h, body, sinkOk)
  IN IF ~sinkOk THEN Failed(self, written, TRUE, sinkOk) ELSE Served(written)

\* the encoder writes once, through the spyingWriter, after it has encoded
\* the whole value; a value it cannot encode is an error before any Write
Encode_ServeHTTP(self, w, sinkOk, conType, encoded) ==
  LET h == writeHead_run(writeHead(self.Status, self.Header, conType, 0, FALSE), w)
      written == SinkWrite(h, encoded, sinkOk)
  IN IF self.Body.kind = "chan" THEN Failed(self, h, FALSE, sinkOk)
     ELSE IF ~sinkOk THEN Failed(self, written, TRUE, sinkOk)
     ELSE Served(written)

\* json.Encoder.Encode of a string: the quoted string and a newline
Json_ServeHTTP(self, w, sinkOk) ==
  Encode_ServeHTTP(self, w, sinkOk, TypeJson,
                   <<"\"">> \o self.Body.data \o <<"\"", "\n">>)

\* xml.Encoder.Encode of a string: the string in a `string` element
Xml_ServeHTTP(self, w, sinkOk) ==
  Encode_ServeHTTP(self, w, sinkOk, TypeXml,
                   <<"<", "s", "t", "r", "i", "n", "g", ">">> \o self.Body.data \o
                   <<"<", "/", "s", "t", "r", "i", "n", "g", ">">>)

\* a handler value: nil or [type, Status, Header, ErrFunc, Body]
MkHan(type, status, head, fun, body) ==
  [type |-> type, Status |-> status, Header |-> head, ErrFunc |-> fun, Body |-> body]

NilHan == MkHan("nil", 0, NoHeader, "nil", Body("nil", <<>>))

StringWith(status, body) == MkHan("String", status, NoHeader, "nil", Body("data", body))

errMsg(err) ==
  LET msg == IF err.kind # "nil" THEN err.text ELSE <<>>
  IN IF msg = <<>> THEN <<"u", "n", "k", "n", "o", "w", "n", " ", "e", "r", "r", "o", "r">>
     ELSE msg

Err(err) == StringWith(StatusInternalServerError, errMsg(err))

\* a value a function panics with: nil, an error with a message, a string,
\* an integer
Value(kind, text, num) == [kind |-> kind, text |-> text, num |-> num]

NilValue == Value("nil", <<>>, 0)

RECURSIVE Itoa(_)
Itoa(n) ==
  LET digit(d) == <<"0", "1", "2", "3", "4", "5", "6", "7", "8", "9">>[d + 1]
  IN IF n < 10 THEN <<digit(n)>> ELSE Append(Itoa(n \div 10), digit(n % 10))

\* fmt.Sprint of one value
Sprint(val) ==
  CASE val.kind = "nil" -> <<"<", "n", "i", "l", ">">>
    [] val.kind = "string" -> val.text
    [] val.kind = "int" -> Itoa(val.num)
    [] val.kind = "error" -> val.text

\* what the function given to Handler does: return a handler, or panic
Fun(kind, han, val) == [kind |-> kind, han |-> han, val |-> val]

\* recover() in recHandler: nil when the function returned; the value of the
\* panic; for panic(nil) either nil or, in a runtime that turns it into a
\* *runtime.PanicNilError, that error
recover(fun, panicNil) ==
  IF fun.kind = "return" THEN NilValue
  ELSE IF fun.val = NilValue /\ ~panicNil
    THEN Value("error", <<"p", "a", "n", "i", "c", " ", "n", "i", "l">>, 0)
  ELSE fun.val

\* recHandler: the handler Handler returns, given what it held at the return
recHandler(out, val) ==
  IF val = NilValue THEN out
  ELSE IF val.kind = "error" THEN Err(val)
  ELSE StringWith(StatusInternalServerError, Sprint(val))

Handler(fun, panicNil) ==
  recHandler(IF fun.kind = "return" THEN fun.han ELSE NilHan, recover(fun, panicNil))

\* inputs
Handlers(type) ==
  {MkHan(type, st, hd, fun, body) :
     st \in {0, StatusOK, 201},
     hd \in {NoHeader, {[key |-> HeadType, vals |-> <<"text/plain">>]}},
     fun \in {"nil", "custom"},
     body \in CASE type = "Reader" ->
                    {Body("nil", <<>>), Body("data", <<"h", "i">>),
                     Body("failing", <<>>), Body("failing", <<"h">>)}
               [] type \in {"Bytes", "String"} ->
                    {Body("data", <<>>), Body("data", <<"h", "i">>)}
               [] type \in {"Json", "Xml"} ->
                    {Body("data", <<"h", "i">>), Body("chan", <<>>)}}

FreshWriters == {w \in Writers : ~w.wroteHeader}

HanFuncs ==
  {Fun("return", h, NilValue) :
     h \in {NilHan, StringWith(StatusOK, <<"o", "k">>),
            MkHan("NotFound", 0, NoHeader, "nil", Body("nil", <<>>))}}
  \cup {Fun("panic", NilHan, v) :
          v \in {NilValue, Value("error", <<"f", "a", "i", "l">>, 0),
                 Value("error", <<>>, 0), Value("string", <<"f", "a", "i", "l">>, 0),
                 Value("string", <<>>, 0), Value("int", <<>>, 0), Value("int", <<>>, 42)}}

\* a call of ServeHTTP or of Handler, and its result
HanCall(op, self, pre, res, fun, out) ==
  [op |-> op, self |-> self, pre |-> pre, errCalled |-> res.errCalled,
   wrote |-> res.wrote, atErr |-> res.atErr, fun |-> fun, out |-> out]

ReaderServeHTTP ==
  /\ last.op = "idle"
  /\ \E self \in Handlers("Reader"), w \in FreshWriters, sinkOk \in BOOLEAN :
       /\ rew' = Reader_ServeHTTP(self, w, sinkOk).rew
       /\ last' = HanCall("Reader.ServeHTTP", self, w, Reader_ServeHTTP(self, w, sinkOk),
                          Fun("return", NilHan, NilValue), NilHan)
       /\ UNCHANGED <<fs, chain>>

BytesServeHTTP ==
  /\ last.op = "idle"
  /\ \E self \in Handlers("Bytes"), w \in FreshWriters, sinkOk \in BOOLEAN :
       /\ rew' = Bytes_ServeHTTP(self, w, sinkOk).rew
       /\ last' = HanCall("Bytes.ServeHTTP", self, w, Bytes_ServeHTTP(self, w, sinkOk),
                          Fun("return", NilHan, NilValue), NilHan)
       /\ UNCHANGED <<fs, chain>>

StringServeHTTP ==
  /\ last.op = "idle"
  /\ \E self \in Handlers("String"), w \in FreshWriters, sinkOk \in BOOLEAN :
       /\ rew' = String_ServeHTTP(self, w, sinkOk).rew
       /\ last' = HanCall("String.ServeHTTP", self, w, String_ServeHTTP(self, w, sinkOk),
                          Fun("return", NilHan, NilValue), NilHan)
       /\ UNCHANGED <<fs, chain>>

JsonServeHTTP ==
  /\ last.op = "idle"
  /\ \E self \in Handlers("Json"), w \in FreshWriters, sinkOk \in BOOLEAN :
       /\ rew' = Json_ServeHTTP(self, w, sinkOk).rew
       /\ last' = HanCall("Json.ServeHTTP", self, w, Json_ServeHTTP(self, w, sinkOk),
                          Fun("return", NilHan, NilValue), NilHan)
       /\ UNCHANGED <<fs, chain>>

XmlServeHTTP ==
  /\ last.op = "idle"
  /\ \E self \in Handlers("Xml"), w \in FreshWriters, sinkOk \in BOOLEAN :
       /\ rew' = Xml_ServeHTTP(self, w, sinkOk).rew
       /\ last' = HanCall("Xml.ServeHTTP", self, w, Xml_ServeHTTP(self, w, sinkOk),
                          Fun("return", NilHan, NilValue), NilHan)
       /\ UNCHANGED <<fs, chain>>

HandlerCall ==
  /\ last.op = "idle"
  /\ \E fun \in HanFuncs, panicNil \in BOOLEAN :
       /\ last' = HanCall("Handler", NilHan, rew, Served(rew), fun, Handler(fun, panicNil))
       /\ UNCHANGED <<fs, rew, chain>>

NextHan ==
  \/ ReaderServeHTTP
  \/ BytesServeHTTP
  \/ StringServeHTTP
  \/ JsonServeHTTP
  \/ XmlServeHTTP
  \/ HandlerCall
  \/ Return

SpecHan == Init /\ [][NextHan]_vars

(***************************************************************************)
(* ServedHTTP step by step, while other processes remove and create files. *)
(* File.ServedHTTP reads the filesystem three times: in its own Exists(),  *)
(* in the Exists() of the ServeHTTP it calls, and when http.ServeFile      *)
(* opens the file.  last.op is the position of the call, last.file the     *)
(* File being served, rew the writer so far.                               *)
(***************************************************************************)
FileServedCall(F, R, W) ==
  /\ last.op = "idle"
  /\ \E f \in F, r \in R, w \in W :
       /\ rew' = w
       /\ last' = Call("ServedHTTP.Exists", f, r, w, f, FALSE, NilHandler)
       /\ UNCHANGED <<fs, chain>>

\* Dir.ServedHTTP resolves and calls File.ServedHTTP
DirServedCall(D, R, W) ==
  /\ last.op = "idle"
  /\ \E d \in D, r \in R, w \in W :
       /\ rew' = w
       /\ last' = Call("ServedHTTP.Exists", d, r, w, Dir_Resolve(d, r), FALSE, NilHandler)
       /\ UNCHANGED <<fs, chain>>

\* the Exists() of File.ServedHTTP
ServedExists ==
  /\ last.op = "ServedHTTP.Exists"
  /\ last' = IF File_Exists(last.file)
               THEN [last EXCEPT !.op = "ServeHTTP.Exists"]
               ELSE [last EXCEPT !.op = "ServedHTTP.return", !.ret = FALSE]
  /\ UNCHANGED <<fs, rew, chain>>

\* the Exists() of File.ServeHTTP, and the branch it takes up to the call of
\* http.ServeFile
ServeExists ==
  /\ last.op = "ServeHTTP.Exists"
  /\ IF File_Exists(last.file)
       THEN /\ rew' = writeHead_run(writeHead(last.file.Status, last.file.Header,
                                              "", 0, FALSE), rew)
            /\ last' = [last EXCEPT !.op = "ServeFile"]
       ELSE /\ rew' = NotFound_ServeHTTP(rew, last.req)
            /\ last' = [last EXCEPT !.op = "ServedHTTP.return", !.ret = TRUE]
  /\ UNCHANGED <<fs, chain>>

\* http.ServeFile, and the return of true
ServeFileOpen ==
  /\ last.op = "ServeFile"
  /\ rew' = ServeFile(rew, last.req, last.file.Path)
  /\ last' = [last EXCEPT !.op = "ServedHTTP.return", !.ret = TRUE]
  /\ UNCHANGED <<fs, chain>>

NextRace ==
  \/ FileServedCall(TreeFileHandlers, FileReqs, FreshWriters)
  \/ DirServedCall({MkDir(h, S_static, f) :
                      h \in {Head0, Head202},
                      f \in {NilFilter, AllowDirs(<<P(S_static, S_public)>>)}},
                   TreeReqs, FreshWriters)
  \/ ServedExists
  \/ ServeExists
  \/ ServeFileOpen
  \/ Return
  \/ Unlink(TreeFiles)
  \/ Creat(TreeFiles)

SpecRace == Init /\ [][NextRace]_vars

(***************************************************************************)
(* Properties.                                                             *)
(***************************************************************************)
IsServedHTTP == last.op \in {"File.ServedHTTP", "Dir.ServedHTTP"}

\* C1: when File.ServedHTTP or Dir.ServedHTTP returns false, the response
\* writer is exactly as it was handed over: same headers, no status written,
\* no body byte written.
C1_FalseLeavesWriterUntouched ==
  (IsServedHTTP /\ ~last.ret) =>
    /\ rew.header = last.pre.header
    /\ rew.wroteHeader = last.pre.wroteHeader
    /\ rew.code = last.pre.code
    /\ rew.snap = last.pre.snap
    /\ rew.body = last.pre.body

\* a Dir with headers and a status of its own returned false on a writer
\* that held headers of the caller
C1_Witness ==
  /\ last.op = "Dir.ServedHTTP"
  /\ ~last.ret
  /\ last.self.Header # NoHeader
  /\ last.self.Status = 202
  /\ last.pre.header # NoHeader
  /\ ~last.pre.wroteHeader

\* C2: File.ServeHTTP on a descriptor whose file does not exist writes status
\* 404 and nothing else: the body and the header map stay as they were, and
\* the status and headers sent are 404 with the headers the writer already
\* held, whatever Header and Status the descriptor carries.
C2_NotFoundIsBare ==
  (last.op = "File.ServeHTTP" /\ ~File_Exists(last.self)) =>
    /\ rew.body = last.pre.body
    /\ rew.header = last.pre.header
    /\ rew.wroteHeader
    /\ ~last.pre.wroteHeader =>
         /\ rew.code = StatusNotFound
         /\ rew.snap = last.pre.header
    /\ last.pre.wroteHeader => rew = last.pre

\* a File with status 202 and a header of its own, whose path is a directory,
\* answered 404 on an untouched writer
C2_Witness ==
  /\ last.op = "File.ServeHTTP"
  /\ last.self.Path = S_static
  /\ last.self.Status = 202
  /\ last.self.Header # NoHeader
  /\ last.pre = NewRecorder
  /\ rew.code = StatusNotFound

\* some element of the path, between separators, is `..`
HasDotDotElement(path) ==
  \E i \in 1..(Len(path) - 1) :
    /\ path[i] = "." /\ path[i + 1] = "."
    /\ i = 1 \/ path[i - 1] = "/"
    /\ i + 1 = Len(path) \/ path[i + 2] = "/"

IsDirCall ==
  last.op \in {"Dir.Resolve", "Dir.ServeHTTP", "Dir.ServedHTTP", "Dir.Han", "Dir.HanOpt"}

\* what not-found looks like in each method of Dir
DirCallNotFound ==
  /\ ~File_Exists(last.file)
  /\ last.op = "Dir.ServeHTTP" =>
       /\ rew.code = StatusNotFound
       /\ rew.body = last.pre.body
       /\ rew.header = last.pre.header
  /\ last.op = "Dir.ServedHTTP" => ~last.ret /\ rew = last.pre
  /\ last.op = "Dir.HanOpt" => last.han = NilHandler
  /\ last.op = "Dir.Han" => last.han = NotFoundHandler

\* C3: for every Dir, whatever its root and filter, a request path with a `..`
\* element resolves to the empty-path File: Exists is false, HanOpt is nil,
\* ServedHTTP is false and ServeHTTP answers 404.
C3_TraversalIsNotFound ==
  (IsDirCall /\ HasDotDotElement(last.req.Path)) =>
    /\ last.file = Dir_File(last.self, <<>>)
    /\ DirCallNotFound

\* a Dir without a filter was asked for /../b, where the file b exists next
\* to the root a
C3_Witness ==
  /\ last.op = "Dir.ServeHTTP"
  /\ last.self.Path = <<"a">>
  /\ last.self.Filter = NilFilter
  /\ last.req.Path = <<"/", ".", ".", "/", "b">>
  /\ fileExists(<<"b">>)
  /\ rew.code = StatusNotFound

\* C4: for every Dir, a request path that ends in `/` is not found.
C4_TrailingSlashIsNotFound ==
  (IsDirCall /\ HasSuffix(last.req.Path, Slash)) => DirCallNotFound

\* C5: AllowDirs(dirs).Allow(val) is true iff for some dir in dirs, val begins
\* with dir and the character right after that prefix is `/`; a val equal to
\* the only dir is denied and the empty list denies everything.
C5_AllowDirsIsContainment ==
  last.op = "AllowDirs.Allow" =>
    LET dirs == last.self.dirs
        val == last.arg
    IN /\ last.ret <=>
            \E i \in 1..Len(dirs) :
              /\ Len(val) > Len(dirs[i])
              /\ \A k \in 1..Len(dirs[i]) : val[k] = dirs[i][k]
              /\ val[Len(dirs[i]) + 1] = "/"
       /\ dirs = <<val>> => ~last.ret
       /\ dirs = <<>> => ~last.ret

\* a/b is allowed by the second of two directories, and not by the first
C5_Witness ==
  /\ last.op = "AllowDirs.Allow"
  /\ last.self.dirs = << <<"b">>, <<"a">> >>
  /\ last.arg = <<"a", "/", "b">>
  /\ last.ret

ReqPublic == [Path |-> Slash \o P(S_public, S_readme)]
ReqPrivate == [Path |-> Slash \o P(S_private, S_readme)]

\* the joined path of a request under the root of a Dir
JoinedPath(d, r) == Join(d.Path, TrimPrefix(r.Path, Slash))

\* a Dir with the given filter serves onto a writer nothing was written to
C6_Serves(filter) ==
  /\ last.op \in {"Dir.ServeHTTP", "Dir.ServedHTTP"}
  /\ last.self.Filter = filter
  /\ ~last.pre.wroteHeader

\* the public file is resolved and sent, the private file is not found
C6_Outcome ==
  /\ (last.req = ReqPublic /\ fileExists(JoinedPath(last.self, ReqPublic))) =>
       /\ last.file = Dir_File(last.self, JoinedPath(last.self, ReqPublic))
       /\ Code(rew) = (IF last.self.Status = 0 THEN StatusOK ELSE last.self.Status)
       /\ rew.body = fs[Stat(JoinedPath(last.self, ReqPublic))].data
  /\ (last.req = ReqPrivate /\ fileExists(JoinedPath(last.self, ReqPrivate))) =>
       /\ last.file = Dir_File(last.self, <<>>)
       /\ last.op = "Dir.ServeHTTP" => Code(rew) = StatusNotFound /\ rew.body = <<>>
       /\ last.op = "Dir.ServedHTTP" => ~last.ret /\ rew = last.pre

\* C6 as claimed: with root R and the filter AllowDirs{public}, the existing
\* file /public/readme.txt is resolved to R/public/readme.txt and sent with its
\* bytes, and the existing file /private/readme.txt is not found.
C6_PublicPrefix == C6_Serves(AllowDirs(<<S_public>>)) => C6_Outcome

\* C6 as amended: the same with the filter AllowDirs{R/public}, the prefix
\* being the root joined with public in forward-slash form, which is the path
\* the filter is given; the status sent is the Dir's Status, 200 when that is
\* 0 or 200.
C6_JoinedPrefix ==
  C6_Serves(AllowDirs(<<ToSlash(Join(last.self.Path, S_public))>>)) => C6_Outcome

\* root static, filter AllowDirs{static/public}: static/public/readme.txt is sent
C6_Witness ==
  /\ last.op = "Dir.ServeHTTP"
  /\ last.self.Path = S_static
  /\ last.self.Filter = AllowDirs(<<P(S_static, S_public)>>)
  /\ last.req = ReqPublic
  /\ last.pre = NewRecorder
  /\ rew.code = StatusOK
  /\ rew.body = DataOf(<<S_static, S_public, S_readme>>)

\* why a Dir does or does not find the file of a request
Cause(d, r) ==
  LET reqPath == TrimPrefix(r.Path, Slash)
  IN IF Contains(reqPath, DotDot) \/ HasSuffix(reqPath, Slash) THEN "rejected"
     ELSE IF ~Dir_Allow(d, JoinedPath(d, r))
       THEN IF fileExists(JoinedPath(d, r)) THEN "denied" ELSE "denied and absent"
     ELSE IF ~fileExists(JoinedPath(d, r)) THEN "absent"
     ELSE "found"

NotFoundCauses == {"rejected", "denied", "denied and absent", "absent"}

\* what a caller observes of one method of Dir
Outcome(op, d, w, r) ==
  CASE op = "Dir.ServeHTTP" ->
         [rew |-> Dir_ServeHTTP(d, w, r), ret |-> FALSE, han |-> NilHandler]
    [] op = "Dir.ServedHTTP" ->
         [rew |-> Dir_ServedHTTP(d, w, r).rew, ret |-> Dir_ServedHTTP(d, w, r).ret,
          han |-> NilHandler]
    [] op = "Dir.Han" -> [rew |-> w, ret |-> FALSE, han |-> Dir_Han(d, r)]
    [] op = "Dir.HanOpt" -> [rew |-> w, ret |-> FALSE, han |-> Dir_HanOpt(d, r)]

\* C7: for one Dir and one initial writer, a request that is not found has
\* the same outcome whatever the cause (rejected for `..` or a trailing `/`,
\* denied by the filter, or absent): ServeHTTP writes 404 and nothing else,
\* ServedHTTP returns false and leaves the writer alone, HanOpt returns nil,
\* Han returns NotFound{}; and the outcome equals that of every other
\* not-found request to the same Dir on the same writer.
C7_NotFoundCausesAlike ==
  (/\ last.op \in {"Dir.ServeHTTP", "Dir.ServedHTTP", "Dir.Han", "Dir.HanOpt"}
   /\ Cause(last.self, last.req) \in NotFoundCauses) =>
    /\ last.op = "Dir.ServeHTTP" =>
         /\ rew.header = last.pre.header
         /\ rew.body = last.pre.body
         /\ ~last.pre.wroteHeader => rew.code = StatusNotFound /\ rew.snap = last.pre.header
    /\ last.op = "Dir.ServedHTTP" => ~last.ret /\ rew = last.pre
    /\ last.op = "Dir.HanOpt" => last.han = NilHandler /\ rew = last.pre
    /\ last.op = "Dir.Han" => last.han = NotFoundHandler /\ rew = last.pre
    /\ \A r \in TreeReqs :
         Cause(last.self, r) \in NotFoundCauses =>
           Outcome(last.op, last.self, last.pre, r) =
             [rew |-> rew, ret |-> last.ret, han |-> last.han]

\* a Dir with headers of its own answered a request whose file exists and is
\* denied, while other requests to it are rejected and absent
C7_Witness ==
  /\ last.op = "Dir.ServeHTTP"
  /\ last.self.Header # NoHeader
  /\ Cause(last.self, last.req) = "denied"
  /\ \E r \in TreeReqs : Cause(last.self, r) = "rejected"
  /\ \E r \in TreeReqs : Cause(last.self, r) = "absent"
  /\ \E r \in TreeReqs : Cause(last.self, r) = "found"
  /\ rew.code = StatusNotFound

\* C8: the root Dir.Path is never itself served: a File that a Dir returns as
\* existing, or serves, is another filesystem entry than the root.
C8_RootIsNeverServed ==
  (IsDirCall /\ File_Exists(last.file)) => Stat(last.file.Path) # Stat(last.self.Path)

\* C9: Dir.Han never returns nil: it returns the resolved File, with the
\* Dir's Status, Header and ErrFunc and the joined path, when the request is
\* not rejected, the filter allows the joined path and the file exists, and
\* NotFound{} otherwise.  Dir.HanOpt returns nil exactly in that otherwise
\* case and the File that Han returns in the other.
C9_HanAndHanOpt ==
  LET found == /\ ~Contains(TrimPrefix(last.req.Path, Slash), DotDot)
               /\ ~HasSuffix(TrimPrefix(last.req.Path, Slash), Slash)
               /\ Dir_Allow(last.self, JoinedPath(last.self, last.req))
               /\ fileExists(JoinedPath(last.self, last.req))
      file == [Status |-> last.self.Status, Header |-> last.self.Header,
               ErrFunc |-> last.self.ErrFunc,
               Path |-> JoinedPath(last.self, last.req)]
  IN /\ last.op = "Dir.Han" =>
          /\ last.han # NilHandler
          /\ last.han = IF found THEN FileHandler(file) ELSE NotFoundHandler
     /\ last.op = "Dir.HanOpt" =>
          /\ last.han = NilHandler <=> ~found
          /\ found => last.han = FileHandler(file) /\ last.han = Dir_Han(last.self, last.req)
     /\ last.op \in {"Dir.Han", "Dir.HanOpt"} => rew = last.pre

\* Han found a/a through the filter AllowDirs{a}
C9_Witness ==
  /\ last.op = "Dir.Han"
  /\ last.self.Filter = AllowDirs(<< <<"a">> >>)
  /\ last.han.type = "File"
  /\ last.han.file.Path = <<"a", "/", "a">>
  /\ last.han.file.Status = 202

\* C10: in a fallback chain at most one attempt changes the writer, the
\* writer is in its initial state when every attempt begins, and while no
\* attempt has returned true the writer is in its initial state.
C10_ChainWritesOnce ==
  chain.active =>
    /\ chain.writers <= 1
    /\ chain.writers = 1 => chain.served
    /\ chain.cleanStarts
    /\ ~chain.served => rew = chain.init

\* two attempts failed and the third one served, on a writer with headers
C10_Witness ==
  /\ chain.active
  /\ chain.tries >= 3
  /\ chain.served
  /\ chain.writers = 1
  /\ chain.init.header # NoHeader
  /\ rew.body # chain.init.body

\* C11: Dir.Resolve is a function of the Dir and the request path alone: a
\* second resolution of the same request by the same Dir gives a File equal
\* to the first in Path, Status, Header and ErrFunc, whatever files were
\* created or removed and whatever the Dir served in between, and at any
\* moment a resolution gives what the first one gave.
C11_ResolveIsPure ==
  /\ last.op = "Dir.Resolve again" =>
       /\ last.han.type = "File"
       /\ last.han.file.Path = last.file.Path
       /\ last.han.file.Status = last.file.Status
       /\ last.han.file.Header = last.file.Header
       /\ last.han.file.ErrFunc = last.file.ErrFunc
  /\ last.op \in {"Dir.Resolve", "Dir.Resolve again"} =>
       Dir_Resolve(last.self, last.req) = last.file

\* static/public/readme.txt was resolved, served while it was there, removed,
\* and resolved again
C11_Witness ==
  /\ last.op = "Dir.Resolve again"
  /\ last.file.Path = P(P(S_static, S_public), S_readme)
  /\ ~fileExists(last.file.Path)
  /\ rew.body = DataOf(<<S_static, S_public, S_readme>>)
  /\ last.self.Filter # NilFilter

\* the filesystem entry a path names, by the names between its separators
EntryAt(path) == Stat(path)

\* a path of names only: no empty, `.` or `..` element
IsPlainPath(path) ==
  /\ path # <<>>
  /\ \A i \in 1..Len(Split(path)) : Split(path)[i] \notin {<<>>, Dot, DotDot}

\* C12: File.Exists() is true exactly when Path is not empty, an entry exists
\* at Path and that entry is not a directory; the empty path, a path naming a
\* directory such as `.`, and a path ending in a separator are false, the
\* last even when the name before the separator is an existing file.
C12_ExistsIsRegularEntry ==
  last.op = "File.Exists" =>
    /\ last.ret <=> /\ last.self.Path # <<>>
                    /\ EntryAt(last.self.Path) \in DOMAIN fs
                    /\ ~fs[EntryAt(last.self.Path)].dir
    /\ IsPlainPath(last.self.Path) =>
         (last.ret <=> /\ Split(last.self.Path) \in DOMAIN fs
                       /\ ~fs[Split(last.self.Path)].dir)
    /\ last.self.Path = <<>> => ~last.ret
    /\ last.self.Path = Dot => ~last.ret
    /\ HasSuffix(last.self.Path, Slash) => ~last.ret

\* the file b is there and Exists() of `b/` is false
C12_Witness ==
  /\ last.op = "File.Exists"
  /\ last.self.Path = <<"b", "/">>
  /\ << <<"b">> >> \in DOMAIN fs
  /\ ~fs[<< <<"b">> >>].dir
  /\ ~last.ret

\* C15: for every File, whether or not its file exists, File.Han returns the
\* descriptor itself, never nil and never NotFound; File.HanOpt returns the
\* descriptor itself when a regular file is at Path and nil otherwise; and
\* neither writes to the response writer.
C15_HanIsSelf ==
  /\ last.op = "File.Han" =>
       /\ last.han.type = "File"
       /\ last.han.file = last.self
       /\ rew = last.pre
  /\ last.op = "File.HanOpt" =>
       /\ rew = last.pre
       /\ IF /\ last.self.Path # <<>>
             /\ EntryAt(last.self.Path) \in DOMAIN fs
             /\ ~fs[EntryAt(last.self.Path)].dir
            THEN last.han.type = "File" /\ last.han.file = last.self
            ELSE last.han = NilHandler

\* File.Han of a descriptor with a status and headers whose path names a
\* directory
C15_Witness ==
  /\ last.op = "File.Han"
  /\ last.self = MkFile(Head202, <<"a">>)
  /\ fs[<< <<"a">> >>].dir
  /\ last.han.file = last.self

\* the status a File is configured to answer with
ConfiguredStatus(file) ==
  IF file.Status = 0 \/ file.Status = StatusOK THEN StatusOK ELSE file.Status

\* C13: when the file of a File exists, ServeHTTP and ServedHTTP on a writer
\* nothing was written to merge the File's Header into the headers sent,
\* answer with the configured Status (200 when Status is 0 or 200), write
\* exactly the bytes of the file as the body, and ServedHTTP returns true.
C13_ExistingFileIsStreamed ==
  (/\ last.op \in {"File.ServeHTTP", "File.ServedHTTP"}
   /\ File_Exists(last.self)
   /\ ~last.pre.wroteHeader) =>
    /\ Code(rew) = ConfiguredStatus(last.self)
    /\ rew.body = last.pre.body \o fs[Stat(last.self.Path)].data
    /\ \A e \in last.self.Header : e \in rew.snap
    /\ last.op = "File.ServedHTTP" => last.ret

\* a filter that lets nothing through: a FilterFunc without a function, an
\* AllowDirs without directories
DeniesAll(filter) == filter = FilterFunc("nil") \/ filter = AllowDirs(<<>>)

\* C14: Dir.Allow is true for every path when the Dir has no filter, and
\* otherwise is what the filter answers for the path in forward-slash form; a
\* FilterFunc whose function is nil and an AllowDirs without directories deny
\* every path, and a Dir holding either serves nothing.
C14_DirAllow ==
  /\ last.op = "Dir.Allow" =>
       /\ last.self.Filter = NilFilter => last.ret
       /\ last.self.Filter.kind = "FilterFunc" =>
            (last.ret <=> last.self.Filter.fun = "true")
       /\ last.self.Filter.kind = "AllowDirs" =>
            (last.ret <=> \E i \in 1..Len(last.self.Filter.dirs) :
                            LET dir == last.self.Filter.dirs[i]
                            IN /\ Len(last.arg) > Len(dir)
                               /\ SubSeq(last.arg, 1, Len(dir)) = dir
                               /\ last.arg[Len(dir) + 1] = "/")
       /\ DeniesAll(last.self.Filter) => ~last.ret
  /\ (last.op = "Dir.ServeHTTP" /\ DeniesAll(last.self.Filter)) =>
       rew = WriteHeader(last.pre, StatusNotFound)
  /\ (last.op = "Dir.ServedHTTP" /\ DeniesAll(last.self.Filter)) =>
       ~last.ret /\ rew = last.pre
  /\ (last.op = "Dir.HanOpt" /\ DeniesAll(last.self.Filter)) =>
       last.han = NilHandler

\* a Dir over the working directory whose FilterFunc holds no function was
\* asked for the existing file b and denied it
C14_Witness ==
  /\ last.op = "Dir.Allow"
  /\ last.self.Filter = FilterFunc("nil")
  /\ last.arg = <<"b">>
  /\ fileExists(last.arg)
  /\ ~last.ret

IsValueServe ==
  last.op \in {"Reader.ServeHTTP", "Bytes.ServeHTTP", "String.ServeHTTP",
               "Json.ServeHTTP", "Xml.ServeHTTP"}

\* C16: whenever Reader, Bytes, String, Json or Xml calls its error function
\* with wrote = false, nothing has been written to the response writer it
\* hands over: no status and no body byte.
C16_WroteFalseMeansUnwritten ==
  (IsValueServe /\ last.errCalled /\ ~last.wrote) =>
    /\ ~last.atErr.wroteHeader
    /\ last.atErr.body = last.pre.body

\* C17: Handler returns the handler the function returned when it returns;
\* a String with status 500 and the error's message, `unknown error` for an
\* empty one, when it panics with an error; and a String with status 500
\* and the printed value when it panics with any other value.
C17_HandlerRecovers ==
  last.op = "Handler" =>
    /\ last.fun.kind = "return" => last.out = last.fun.han
    /\ (last.fun.kind = "panic" /\ last.fun.val.kind = "error") =>
         /\ last.out.type = "String"
         /\ last.out.Status = StatusInternalServerError
         /\ last.out.Body.data =
              IF last.fun.val.text = <<>>
                THEN <<"u", "n", "k", "n", "o", "w", "n", " ", "e", "r", "r", "o", "r">>
                ELSE last.fun.val.text
    /\ (last.fun.kind = "panic" /\ last.fun.val.kind # "error") =>
         /\ last.out.type = "String"
         /\ last.out.Status = StatusInternalServerError
         /\ last.out.Body.data = Sprint(last.fun.val)

\* C18: whenever Dir.Resolve calls its filter, the path it gives to
\* Filter.Allow is the join of Dir.Path and the request path without its one
\* leading `/`, with forward slashes, and that path starts with Dir.Path,
\* for every root, `.`, `./a` and the empty root included.
C18_FilterArgStartsWithRoot ==
  (last.op = "Dir.Resolve" /\ last.ret) =>
    /\ last.arg = ToSlash(Join(last.self.Path,
                               IF last.req.Path # <<>> /\ last.req.Path[1] = "/"
                                 THEN Tail(last.req.Path) ELSE last.req.Path))
    /\ HasPrefix(last.arg, last.self.Path)

\* C19: whatever files are created or removed while File.ServedHTTP or
\* Dir.ServedHTTP runs, a call that returns true has not answered with the
\* bare 404 of NotFound: status 404 and nothing else written.
C19_TrueIsNeverBare404 ==
  (last.op = "ServedHTTP.return" /\ last.ret) =>
    rew # NotFound_ServeHTTP(last.pre, last.req)

\* the request path without its one leading `/`
Stripped(path) == IF path # <<>> /\ path[1] = "/" THEN Tail(path) ELSE path

\* the bytes of some file were added to the body
StreamedFrom(node) ==
  /\ node \in DOMAIN fs
  /\ ~fs[node].dir
  /\ rew.body = last.pre.body \o fs[node].data

\* C20: every file a Dir streams, through ServeHTTP or ServedHTTP, or hands
\* out in the handler of Han or HanOpt, is the file at the join of Dir.Path
\* and the stripped request path, for a request path without `..` and
\* without a trailing `/`, and that joined path is the one Dir.Allow accepts.
C20_StreamedIsJoinedAndAllowed ==
  LET joined == Join(last.self.Path, Stripped(last.req.Path))
      good == /\ ~HasDotDotElement(last.req.Path)
              /\ ~HasSuffix(last.req.Path, Slash)
              /\ Dir_Allow(last.self, joined)
  IN /\ (/\ last.op \in {"Dir.ServeHTTP", "Dir.ServedHTTP"}
         /\ \E node \in DOMAIN fs : StreamedFrom(node)) =>
          /\ StreamedFrom(Stat(joined))
          /\ last.file.Path = joined
          /\ good
     /\ (last.op \in {"Dir.Han", "Dir.HanOpt"} /\ last.han.type = "File") =>
          /\ last.han.file.Path = joined
          /\ good

====
